---- MODULE Spec2Model ----
(***************************************************************************)
(* Model of the sales-commission report scripts of sistema-comissoes:      *)
(*   comissoes-cli/scripts/test_sales_exec_comp_by_date_creation_and_      *)
(*   date_comission.py  (main, run_for_person and their helpers),          *)
(*   comissoes-cli/src/audaz_comissoes/sheets_client.py (_safe_headers).   *)
(*                                                                         *)
(* Text is modelled as a sequence of one-character strings, so that        *)
(* strip/lower/replace/endswith are computed as Python computes them.      *)
(* Numbers are exact decimals [m, e] standing for m / 10^e; the short      *)
(* decimal literals used here are far below the 15 significant digits a    *)
(* double represents exactly enough for the comparisons made.              *)
(***************************************************************************)
EXTENDS Integers, Sequences, FiniteSets, TLC

VARIABLES
    fn,         \* pure-function harness: the function under evaluation
    arg,        \* its argument
    res,        \* its result, Pending before the call
    env,        \* os.environ as main reads it
    df_niveis,  \* the three sheets as read by read_sheet_by_gid
    df_meta,
    df_ap,
    db,         \* M0020_SHIPMENT_HOUSE: code -> [creation, comission]
    pc,         \* position of main / run_for_person
    err,        \* the exception that aborted the run, or NoErr
    competencias,   \* main: competencias, pay_yyyymm
    pay_yyyymm,
    people,     \* main: people
    pidx,       \* main: index of the person of the running run_for_person
    pct,        \* run_for_person locals
    df_person,
    cidx,       \* index into competencias (for comp in competencias)
    ridx,       \* index into df_person (for _, r in df_person.iterrows())
    out_rows,
    gp_total,
    com_total,
    gp_total_all,
    com_total_all,
    gp_geral,   \* main: gp_geral, com_geral
    com_geral,
    output,     \* everything printed so far, in order
    lookups,    \* every call of get_dates_by_shipment_number so far, in order, and
                \* whether the row it was made for was then listed
    ledger,     \* gp_total, com_total and out_rows at the end of every period so far
    returned,   \* what every finished run_for_person returned
    run,        \* 1 for the first aggregation over the tables, 2 for the second
    first,      \* what the first aggregation printed and the tables it started from
    clients,    \* sheets_client._gc: the gspread clients authorized so far
    conns,      \* mysql_repo: every connection _mysql_conn returned, "open" or "closed"
    lk,         \* get_shipment_dates_by_number: the position of the running call
    pay_col     \* scripts/test_danielle_set_out_pay_dez.py, run_case: pay_col

mainVars == <<env, df_niveis, df_meta, df_ap, db, pc, err, competencias, pay_yyyymm, people, pidx, pct,
              df_person, cidx, ridx, out_rows, gp_total, com_total,
              gp_total_all, com_total_all, gp_geral, com_geral, output,
              lookups, ledger, returned, run, first, clients, conns, lk, pay_col>>
handleVars == <<clients, conns, lk>>
vars == <<fn, arg, res, env, df_niveis, df_meta, df_ap, db, pc, err, competencias,
          pay_yyyymm, people,
          pidx, pct, df_person, cidx, ridx, out_rows, gp_total, com_total,
          gp_total_all, com_total_all, gp_geral, com_geral, output, lookups,
          ledger, returned, run, first, clients, conns, lk, pay_col>>

(***************************************************************************)
(* Bounds of the model.                                                    *)
(***************************************************************************)
MaxLen == 4         \* longest enumerated text of the money and percentage inputs
MaxHeaders == 3     \* longest enumerated header row
MaxMeta == 3        \* most rows of an enumerated Meta Colaborador sheet
MaxRows == 2
MaxLookups == 3        \* most rows of an enumerated Apurado sheet

(***************************************************************************)
(* Text.                                                                   *)
(***************************************************************************)
Range(f) == {f[i] : i \in DOMAIN f}

RECURSIVE SeqsUpTo(_, _)
\* all sequences over S of length at most n
SeqsUpTo(S, n) ==
    IF n = 0 THEN {<<>>}
    ELSE LET shorter == SeqsUpTo(S, n - 1)
         IN shorter \cup {Append(s, c) : s \in {t \in shorter : Len(t) = n - 1}, c \in S}

IsSpace(c) == c = " "

RECURSIVE LStrip(_)
LStrip(s) == IF s # <<>> /\ IsSpace(Head(s)) THEN LStrip(Tail(s)) ELSE s

RECURSIVE RStrip(_)
RStrip(s) ==
    IF s # <<>> /\ IsSpace(s[Len(s)]) THEN RStrip(SubSeq(s, 1, Len(s) - 1)) ELSE s

\* str.strip()
Strip(s) == RStrip(LStrip(s))

UpperLetters == <<
    "A", "B", "C", "D", "E", "F", "G", "H", "I", "J", "K", "L", "M",
    "N", "O", "P", "Q", "R", "S", "T", "U", "V", "W", "X", "Y", "Z",
    "Ã", "Á", "À", "Â", "É", "Ê", "Í", "Ó", "Ô", "Ú", "Ç">>

LowerLetters == <<
    "a", "b", "c", "d", "e", "f", "g", "h", "i", "j", "k", "l", "m",
    "n", "o", "p", "q", "r", "s", "t", "u", "v", "w", "x", "y", "z",
    "ã", "á", "à", "â", "é", "ê", "í", "ó", "ô", "ú", "ç">>

\* str.lower() of one character
LowerChar(c) ==
    IF \E i \in 1..Len(UpperLetters) : UpperLetters[i] = c
    THEN LowerLetters[CHOOSE i \in 1..Len(UpperLetters) : UpperLetters[i] = c]
    ELSE c

\* str.lower()
Lower(s) == [i \in 1..Len(s) |-> LowerChar(s[i])]

\* whether sub occurs in s at position i
MatchAt(s, sub, i) ==
    /\ i + Len(sub) - 1 <= Len(s)
    /\ \A k \in 1..Len(sub) : s[i + k - 1] = sub[k]

RECURSIVE Replace(_, _, _)
\* str.replace(old, new) for a non-empty old: leftmost, non-overlapping, one pass
Replace(s, old, new) ==
    IF s = <<>> THEN <<>>
    ELSE IF MatchAt(s, old, 1)
         THEN new \o Replace(SubSeq(s, Len(old) + 1, Len(s)), old, new)
         ELSE <<Head(s)>> \o Replace(Tail(s), old, new)

\* str.endswith(suffix)
EndsWith(s, suffix) ==
    /\ Len(suffix) <= Len(s)
    /\ SubSeq(s, Len(s) - Len(suffix) + 1, Len(s)) = suffix

\* sub in s
Contains(s, sub) == \E i \in 1..(Len(s) + 1) : MatchAt(s, sub, i)

(***************************************************************************)
(* Numbers: [m, e] is m / 10^e, kept with the least e.                     *)
(***************************************************************************)
RECURSIVE Pow10(_)
Pow10(n) == IF n = 0 THEN 1 ELSE 10 * Pow10(n - 1)

RECURSIVE Norm(_, _)
Norm(m, e) ==
    IF e > 0 /\ m % 10 = 0 THEN Norm(m \div 10, e - 1) ELSE [m |-> m, e |-> e]

Zero == [m |-> 0, e |-> 0]

Max(a, b) == IF a >= b THEN a ELSE b

\* a + b
DecAdd(a, b) ==
    LET e == Max(a.e, b.e)
    IN Norm(a.m * Pow10(e - a.e) + b.m * Pow10(e - b.e), e)

\* a * b
DecMul(a, b) == Norm(a.m * b.m, a.e + b.e)

\* a / 100.0
DecDiv100(a) == Norm(a.m, a.e + 2)

Digits == <<"0", "1", "2", "3", "4", "5", "6", "7", "8", "9">>

IsDigit(c) == c \in Range(Digits)

DigitVal(c) == (CHOOSE i \in 1..10 : Digits[i] = c) - 1

RECURSIVE DigitsVal(_)
\* the number written by a sequence of digits ("" is 0)
DigitsVal(s) ==
    IF s = <<>> THEN 0 ELSE 10 * DigitsVal(SubSeq(s, 1, Len(s) - 1)) + DigitVal(s[Len(s)])

NoFloat == [ok |-> FALSE, v |-> Zero]

(***************************************************************************)
(* float(s) of a text: surrounding blanks are ignored, then an optional    *)
(* sign, then digits with at most one point and at least one digit.  The   *)
(* texts of the model hold no letter of an exponent, of inf or nan, and no *)
(* underscore, so those forms of float() cannot occur.  ok = FALSE is      *)
(* Python's ValueError.                                                    *)
(***************************************************************************)
PyFloat(s) ==
    LET t == Strip(s)
        signed == t # <<>> /\ Head(t) \in {"+", "-"}
        body == IF signed THEN Tail(t) ELSE t
        points == {i \in 1..Len(body) : body[i] = "."}
        ds == SelectSeq(body, IsDigit)
    IN IF /\ \A i \in 1..Len(body) : IsDigit(body[i]) \/ body[i] = "."
          /\ Cardinality(points) <= 1
          /\ ds # <<>>
       THEN LET frac == IF points = {} THEN 0
                        ELSE Len(body) - (CHOOSE i \in points : TRUE)
                mag == DigitsVal(ds)
            IN [ok |-> TRUE,
                v |-> Norm(IF signed /\ Head(t) = "-" THEN 0 - mag ELSE mag, frac)]
       ELSE NoFloat

(***************************************************************************)
(* parse_ptbr_money.  Its argument is None, an int, a float or a text:     *)
(* [t |-> "none"], [t |-> "int", v |-> n], [t |-> "float", v |-> dec],     *)
(* [t |-> "str", s |-> text].  A call returns or raises.                   *)
(***************************************************************************)
Returned(v) == [raised |-> FALSE, v |-> v]
Raised(exc, msg) == [raised |-> TRUE, exc |-> exc, msg |-> msg]

PyNone == [t |-> "none"]
PyInt(n) == [t |-> "int", v |-> n]
PyFloatVal(d) == [t |-> "float", v |-> d]
PyStr(s) == [t |-> "str", s |-> s]

\* lines 47-49: the text handed to float()
MoneyText(s) ==
    LET s1 == Replace(Replace(s, <<"R", "$">>, <<>>), <<" ">>, <<>>)
    IN IF Contains(s1, <<",">>)
       THEN Replace(Replace(s1, <<".">>, <<>>), <<",">>, <<".">>)
       ELSE s1

\* parse_ptbr_money without the try/except around float(s)
parse_ptbr_money_unguarded(x) ==
    IF x.t = "none" THEN Returned(Zero)
    ELSE IF x.t = "int" THEN Returned(Norm(x.v, 0))
    ELSE IF x.t = "float" THEN Returned(x.v)
    ELSE LET s == Strip(x.s)
         IN IF s = <<>> THEN Returned(Zero)
            ELSE LET f == PyFloat(MoneyText(s))
                 IN IF f.ok THEN Returned(f.v) ELSE Raised("ValueError", "float")

parse_ptbr_money(x) ==
    IF x.t = "none" THEN Returned(Zero)
    ELSE IF x.t = "int" THEN Returned(Norm(x.v, 0))
    ELSE IF x.t = "float" THEN Returned(x.v)
    ELSE LET s == Strip(x.s)
         IN IF s = <<>> THEN Returned(Zero)
            ELSE LET f == PyFloat(MoneyText(s))
                 IN IF f.ok THEN Returned(f.v)
                    ELSE Returned(Zero)     \* except Exception: return 0.0

(***************************************************************************)
(* The harness of the pure functions: one call of the function on one      *)
(* argument.  main is not running in these specifications.                 *)
(***************************************************************************)
Pending == [pending |-> TRUE]
NoErr == "none"
NoTable == [cols |-> {}, rows |-> <<>>]
NoPct == Zero

\* no call of get_shipment_dates_by_number is running
NoLookup == [at |-> "idle", out |-> Pending]

MainIdle ==
    /\ env = [idle |-> TRUE]
    /\ df_niveis = NoTable /\ df_meta = NoTable /\ df_ap = NoTable
    /\ db = <<>>
    /\ pc = "idle" /\ err = NoErr
    /\ competencias = <<>> /\ pay_yyyymm = <<>>
    /\ people = <<>> /\ pidx = 0
    /\ pct = NoPct /\ df_person = <<>> /\ cidx = 0 /\ ridx = 0
    /\ out_rows = <<>>
    /\ gp_total = Zero /\ com_total = Zero
    /\ gp_total_all = Zero /\ com_total_all = Zero
    /\ gp_geral = Zero /\ com_geral = Zero
    /\ output = <<>> /\ lookups = <<>> /\ ledger = <<>> /\ returned = <<>>
    /\ run = 0 /\ first = <<>>
    /\ clients = 0 /\ conns = <<>> /\ lk = NoLookup
    /\ pay_col = <<>>

MoneyChars == {"R", "$", " ", ".", ",", "4", "3", "-"}

EX_MONEY_FULL == <<"R", "$", " ", "4", ".", "3", "7", "4", ",", "3", "4">>
EX_MONEY_PLAIN == <<"4", "3", "7", "4", ",", "3", "4">>
EX_MONEY_DOTS == <<"1", ".", "0", "0", "0", ",", "0", "0">>

MoneyInputs ==
    {PyNone} \cup {PyInt(n) : n \in {0, 1500, 0 - 3}}
    \cup {PyFloatVal([m |-> 15, e |-> 1])}
    \cup {PyStr(s) : s \in SeqsUpTo(MoneyChars, MaxLen)}
    \cup {PyStr(EX_MONEY_FULL), PyStr(EX_MONEY_PLAIN), PyStr(EX_MONEY_DOTS)}

InitMoney ==
    /\ fn = "parse_ptbr_money"
    /\ arg \in MoneyInputs
    /\ res = Pending
    /\ MainIdle

CallMoney ==
    /\ fn = "parse_ptbr_money"
    /\ res = Pending
    /\ res' = parse_ptbr_money(arg)
    /\ UNCHANGED <<fn, arg>>
    /\ UNCHANGED mainVars

NextMoney == CallMoney

SpecMoney == InitMoney /\ [][NextMoney]_vars

\* the text the description of parse_ptbr_money parses: "R$" and spaces removed,
\* then, only with a comma in it, every dot dropped and every comma made a dot
DescribedMoneyText(s) ==
    LET noSpace(c) == c # " "
        noDot(c) == c # "."
        t == SelectSeq(Replace(s, <<"R", "$">>, <<>>), noSpace)
        u == SelectSeq(t, noDot)
    IN IF \E i \in 1..Len(t) : t[i] = ","
       THEN [i \in 1..Len(u) |-> IF u[i] = "," THEN "." ELSE u[i]]
       ELSE t

MoneyCalled == fn = "parse_ptbr_money" /\ res # Pending

RECURSIVE IntToStr(_)
\* str(n) for n >= 0
IntToStr(n) ==
    IF n < 10 THEN <<Digits[n + 1]>> ELSE IntToStr(n \div 10) \o <<Digits[(n % 10) + 1]>>

COLUNA == <<"C", "O", "L", "U", "N", "A", " ">>

RECURSIVE safe_headers_loop(_, _, _, _)
\* the loop of _safe_headers from position i (1-based; enumerate's i is i - 1),
\* with the dict used and the list safe built so far
safe_headers_loop(headers, i, used, safe) ==
    IF i > Len(headers) THEN safe
    ELSE LET h == headers[i]
             base == IF Strip(h) # <<>> THEN Strip(h) ELSE COLUNA \o IntToStr(i)
             n == IF base \in DOMAIN used THEN used[base] ELSE 0
             name == IF n = 0 THEN base ELSE base \o <<"_", "_">> \o IntToStr(n + 1)
             used2 == [b \in DOMAIN used \cup {base} |-> IF b = base THEN n + 1 ELSE used[b]]
         IN safe_headers_loop(headers, i + 1, used2, Append(safe, name))

_safe_headers(headers) == safe_headers_loop(headers, 1, <<>>, <<>>)

\* dict(zip(keys, vals)): a repeated key keeps its last value
DictZip(keys, vals) ==
    LET n == IF Len(keys) <= Len(vals) THEN Len(keys) ELSE Len(vals)
    IN [k \in {keys[i] : i \in 1..n} |->
           vals[CHOOSE i \in 1..n : keys[i] = k /\ \A j \in (i + 1)..n : keys[j] # k]]

\* (row + [""] * n)[:n]
PadTo(row, n) == [i \in 1..n |-> IF i <= Len(row) THEN row[i] ELSE <<>>]

RECURSIVE records_loop(_, _, _, _)
records_loop(values, k, headers, records) ==
    IF k > Len(values) THEN records
    ELSE LET row == PadTo(values[k], Len(headers))
         IN IF \A i \in 1..Len(row) : Strip(row[i]) = <<>>
            THEN records_loop(values, k + 1, headers, records)
            ELSE records_loop(values, k + 1, headers, Append(records, DictZip(headers, row)))

\* _get_records_tolerant with header_row = 1; values is ws.get_all_values().
\* The result carries the column names beside the records.
_get_records_tolerant(values) ==
    IF values = <<>> THEN [headers |-> <<>>, records |-> <<>>]
    ELSE LET headers == _safe_headers(values[1])
         IN [headers |-> headers, records |-> records_loop(values, 2, headers, <<>>)]

HeaderCells ==
    {<<>>, <<"A">>, <<" ", "A">>, <<"A", "_", "_", "2">>, <<"B">>,
     <<"C", "O", "L", "U", "N", "A", " ", "2">>}

\* a data row whose i-th cell is the digit i, so that a cell tells its column
DataRow(n) == [i \in 1..n |-> IntToStr(i)]

SheetValues ==
    {<<>>}
    \cup {<<h>> : h \in SeqsUpTo(HeaderCells, MaxHeaders)}
    \cup {<<h, DataRow(Len(h))>> : h \in SeqsUpTo(HeaderCells, MaxHeaders)}
    \cup {<<h, DataRow(Len(h) - 1), PadTo(<<>>, Len(h))>> :
              h \in SeqsUpTo(HeaderCells, MaxHeaders) \ {<<>>}}

InitHeaders ==
    /\ fn = "_get_records_tolerant"
    /\ arg \in SheetValues
    /\ res = Pending
    /\ MainIdle

CallRecords ==
    /\ fn = "_get_records_tolerant"
    /\ res = Pending
    /\ res' = _get_records_tolerant(arg)
    /\ UNCHANGED <<fn, arg>>
    /\ UNCHANGED mainVars

NextHeaders == CallRecords

SpecHeaders == InitHeaders /\ [][NextHeaders]_vars

RecordsCalled == fn = "_get_records_tolerant" /\ res # Pending

(***************************************************************************)
(* C10: the column names _safe_headers produces are pairwise distinct, so  *)
(* every record built from a row holds one cell for each column (no        *)
(* column's cells are lost).                                               *)
(***************************************************************************)
C10_HeadersDistinct ==
    RecordsCalled =>
        /\ \A i, j \in 1..Len(res.headers) : i # j => res.headers[i] # res.headers[j]
        /\ \A k \in 1..Len(res.records) :
               Cardinality(DOMAIN res.records[k]) = Len(res.headers)

(***************************************************************************)
(* Sheets as DataFrames: [cols |-> the column names, rows |-> the rows],   *)
(* a row being a function from the column names to texts.                  *)
(***************************************************************************)
\* str(r.get(c) or "")
CellOr(r, c) == IF c \in DOMAIN r THEN r[c] ELSE <<>>

\* the replace chain of _norm_text on one character
FoldChar(c) ==
    CASE c \in {"ã", "á", "à", "â"} -> "a"
      [] c \in {"é", "ê"} -> "e"
      [] c = "í" -> "i"
      [] c \in {"ó", "ô"} -> "o"
      [] c = "ú" -> "u"
      [] c = "ç" -> "c"
      [] OTHER -> c

_norm_text(s) ==
    LET t == Lower(Strip(s))
    IN [i \in 1..Len(t) |-> FoldChar(t[i])]

PERCENT == <<"%">>

\* lines 73-74: float(pct_num) / 100.0, float() raising ValueError
PctValue(pct_str) ==
    LET pct_num == Replace(Replace(Strip(Replace(pct_str, PERCENT, <<>>)),
                                   <<".">>, <<>>), <<",">>, <<".">>)
        f == PyFloat(pct_num)
    IN IF f.ok THEN Returned(DecDiv100(f.v)) ELSE Raised("ValueError", "float")

\* lines 57-74: the rate of a level, from the first row whose level matches
get_percentual_sales_exec(df, nivel) ==
    IF "Niveis" \notin df.cols THEN Raised("RuntimeError", "coluna Niveis")
    ELSE LET nk == _norm_text(nivel)
             hit == {i \in 1..Len(df.rows) : _norm_text(df.rows[i]["Niveis"]) = nk}
         IN IF hit = {} THEN Raised("RuntimeError", "nivel")
            ELSE LET row == df.rows[CHOOSE i \in hit : \A j \in hit : i <= j]   \* row.iloc[0]
                     pct_str == Strip(CellOr(row, "Sales Executive"))
                 IN IF ~EndsWith(pct_str, PERCENT)
                    THEN Raised("RuntimeError", "percentual")
                    ELSE PctValue(pct_str)

GUARDIAO == <<"G", "u", "a", "r", "d", "i", "a", "o">>
GUARDIAO_ACENTO == <<"g", "u", "a", "r", "d", "i", "ã", "o">>
GUARDIAO_CAIXA == <<" ", "G", "U", "A", "R", "D", "I", "Ã", "O">>
APRENDIZ == <<"A", "p", "r", "e", "n", "d", "i", "z">>
MESTRE == <<"M", "e", "s", "t", "r", "e">>
P50 == <<"5", "0", "%">>
P10 == <<"1", "0", "%">>

NivelRow(nivel, cell) == [c \in {"Niveis", "Sales Executive"} |-> IF c = "Niveis" THEN nivel ELSE cell]

Table(cols, rows) == [cols |-> cols, rows |-> rows]

\* restriction of a table to some of its columns (a sheet lacking the others)
Without(df, gone) ==
    [cols |-> df.cols \ gone,
     rows |-> [i \in 1..Len(df.rows) |-> [c \in df.cols \ gone |-> df.rows[i][c]]]]

PctChars == {"5", "0", "%", ",", ".", " "}

NiveisTables ==
    LET full == {"Niveis", "Sales Executive"}
        one == {Table(full, <<NivelRow(n, c)>>) :
                   n \in {GUARDIAO, APRENDIZ}, c \in SeqsUpTo(PctChars, MaxLen)}
        two == {Table(full, <<NivelRow(n, c), NivelRow(GUARDIAO_CAIXA, P10)>>) :
                   n \in {GUARDIAO, APRENDIZ}, c \in SeqsUpTo(PctChars, MaxLen)}
        base == Table(full, <<NivelRow(GUARDIAO, P50), NivelRow(APRENDIZ, P10)>>)
    IN one \cup two \cup {Table(full, <<>>), Without(base, {"Niveis"}),
                          Without(base, {"Sales Executive"})}

PctInputs == {<<df, nivel>> : df \in NiveisTables, nivel \in {GUARDIAO_ACENTO, MESTRE}}

InitPct ==
    /\ fn = "get_percentual_sales_exec"
    /\ arg \in PctInputs
    /\ res = Pending
    /\ MainIdle

CallPct ==
    /\ fn = "get_percentual_sales_exec"
    /\ res = Pending
    /\ res' = get_percentual_sales_exec(arg[1], arg[2])
    /\ UNCHANGED <<fn, arg>>
    /\ UNCHANGED mainVars

NextPct == CallPct

SpecPct == InitPct /\ [][NextPct]_vars

PctCalled == fn = "get_percentual_sales_exec" /\ res # Pending

\* the rows of the level table whose normalized level is the normalized target
PctMatches == {i \in 1..Len(arg[1].rows) : _norm_text(arg[1].rows[i]["Niveis"]) = _norm_text(arg[2])}

\* the percentage cell of the first matching row
PctCell == Strip(CellOr(arg[1].rows[CHOOSE i \in PctMatches : \A j \in PctMatches : i <= j],
                        "Sales Executive"))

(***************************************************************************)
(* C4: get_percentual_sales_exec takes the first row whose normalized      *)
(* level equals the normalized target; no such row is a RuntimeError, a    *)
(* matched cell not ending in "%" is a RuntimeError, and every matched     *)
(* cell ending in "%" yields a fraction ("50%" yields 0.5).                *)
(***************************************************************************)
C4_PctResolver ==
    (PctCalled /\ "Niveis" \in arg[1].cols) =>
        /\ PctMatches = {} => res.raised /\ res.exc = "RuntimeError"
        /\ PctMatches # {} /\ ~EndsWith(PctCell, PERCENT) =>
               res.raised /\ res.exc = "RuntimeError"
        /\ PctMatches # {} /\ EndsWith(PctCell, PERCENT) => ~res.raised
        /\ PctMatches # {} /\ PctCell = P50 => res = Returned([m |-> 5, e |-> 1])

(***************************************************************************)
(* get_sales_exec_people.                                                  *)
(***************************************************************************)
SALES_EXECUTIVE == <<"S", "a", "l", "e", "s", " ", "E", "x", "e", "c", "u", "t", "i", "v", "e">>

MetaRequired == {"Colaborador", "Email", "Função", "Nível"}

Person(nome, email, nivel) == [nome |-> nome, email |-> email, nivel |-> nivel]

RECURSIVE people_loop(_, _, _)
\* lines 90-97 over the rows already filtered by role
people_loop(rows, i, acc) ==
    IF i > Len(rows) THEN acc
    ELSE LET nome == Strip(CellOr(rows[i], "Colaborador"))
             email == Strip(CellOr(rows[i], "Email"))
             nivel == Strip(CellOr(rows[i], "Nível"))
         IN IF nome = <<>> \/ nivel = <<>>
            THEN people_loop(rows, i + 1, acc)
            ELSE people_loop(rows, i + 1, Append(acc, Person(nome, email, nivel)))

\* (p["email"] or p["nome"]).strip().lower()
PersonKey(p) == Lower(Strip(IF p.email # <<>> THEN p.email ELSE p.nome))

RECURSIVE uniq_loop_last(_, _, _, _)
\* uniq_loop letting a later person replace the earlier one of the same key
uniq_loop_last(ps, i, seen, uniq) ==
    IF i > Len(ps) THEN uniq
    ELSE LET key == PersonKey(ps[i])
             keep(p) == PersonKey(p) # key
         IN uniq_loop_last(ps, i + 1, seen \cup {key}, Append(SelectSeq(uniq, keep), ps[i]))

RECURSIVE uniq_loop(_, _, _, _)
\* lines 100-107
uniq_loop(ps, i, seen, uniq) ==
    IF i > Len(ps) THEN uniq
    ELSE LET key == PersonKey(ps[i])
         IN IF key \in seen
            THEN uniq_loop(ps, i + 1, seen, uniq)
            ELSE uniq_loop(ps, i + 1, seen \cup {key}, Append(uniq, ps[i]))

get_sales_exec_people(meta) ==
    IF ~(MetaRequired \subseteq meta.cols)
    THEN Raised("RuntimeError", "coluna Meta Colaborador")
    ELSE LET isSales(r) == _norm_text(r["Função"]) = _norm_text(SALES_EXECUTIVE)
             df == SelectSeq(meta.rows, isSales)
         IN Returned(uniq_loop(people_loop(df, 1, <<>>), 1, {}, <<>>))

MetaRow(funcao, nome, email, nivel) ==
    [c \in MetaRequired |->
        CASE c = "Colaborador" -> nome [] c = "Email" -> email
          [] c = "Função" -> funcao [] OTHER -> nivel]

SALES_LOWER == <<" ", "s", "a", "l", "e", "s", " ", "e", "x", "e", "c", "u", "t", "i", "v", "e">>
OPERATIONS == <<"O", "p", "s">>
ANA == <<"A", "n", "a">>
BOB == <<"B", "o", "b">>
EVE == <<"E", "v", "e">>
MAIL_ANA == <<"a", "@", "x">>
MAIL_ANA_CAIXA == <<"A", "@", "X", " ">>

MetaRows ==
    {MetaRow(SALES_EXECUTIVE, ANA, MAIL_ANA, GUARDIAO),
     MetaRow(SALES_LOWER, <<" ", "a", "n", "a">>, MAIL_ANA_CAIXA, APRENDIZ),
     MetaRow(SALES_EXECUTIVE, BOB, <<>>, GUARDIAO),
     MetaRow(SALES_EXECUTIVE, <<"B", "O", "B">>, <<" ">>, APRENDIZ),
     MetaRow(SALES_EXECUTIVE, EVE, <<"b", "o", "b">>, GUARDIAO_ACENTO),
     MetaRow(OPERATIONS, ANA, MAIL_ANA, GUARDIAO),
     MetaRow(SALES_EXECUTIVE, <<" ">>, <<"z", "@", "x">>, GUARDIAO),
     MetaRow(SALES_EXECUTIVE, EVE, MAIL_ANA, <<>>)}

MetaTables ==
    {Table(MetaRequired, rows) : rows \in SeqsUpTo(MetaRows, MaxMeta)}
    \cup {Without(Table(MetaRequired, <<r>>), {c}) : r \in MetaRows, c \in MetaRequired}

InitPeople ==
    /\ fn = "get_sales_exec_people"
    /\ arg \in MetaTables
    /\ res = Pending
    /\ MainIdle

CallPeople ==
    /\ fn = "get_sales_exec_people"
    /\ res = Pending
    /\ res' = get_sales_exec_people(arg)
    /\ UNCHANGED <<fn, arg>>
    /\ UNCHANGED mainVars

NextPeople == CallPeople

SpecPeople == InitPeople /\ [][NextPeople]_vars

PeopleCalled ==
    fn = "get_sales_exec_people" /\ res # Pending /\ MetaRequired \subseteq arg.cols

\* the person a row of the metadata table describes
RowPerson(r) == Person(Strip(r["Colaborador"]), Strip(r["Email"]), Strip(r["Nível"]))

\* the lowercased key of a row: its email, or its name when the email is empty
RowKey(r) ==
    Lower(IF Strip(r["Email"]) # <<>> THEN Strip(r["Email"]) ELSE Strip(r["Colaborador"]))

\* the rows with the target role and a non-empty name and level
Eligible ==
    {i \in 1..Len(arg.rows) :
        /\ _norm_text(arg.rows[i]["Função"]) = _norm_text(SALES_EXECUTIVE)
        /\ Strip(arg.rows[i]["Colaborador"]) # <<>>
        /\ Strip(arg.rows[i]["Nível"]) # <<>>}

\* of the eligible rows sharing a key, the first in table order
Kept == {i \in Eligible : \A j \in Eligible : j < i => RowKey(arg.rows[j]) # RowKey(arg.rows[i])}

(***************************************************************************)
(* C5: get_sales_exec_people returns exactly the rows with the target role *)
(* (normalized) and a non-empty trimmed name and level, reduced to the     *)
(* first row of each lowercased key (email, or name when the email is      *)
(* empty), in table order; no two returned people share a key.             *)
(***************************************************************************)
C5_RosterDedup ==
    PeopleCalled =>
        /\ ~res.raised
        /\ Len(res.v) = Cardinality(Kept)
        /\ \A k \in 1..Len(res.v) :
               \E i \in Kept :
                   /\ Cardinality({j \in Kept : j < i}) = k - 1
                   /\ res.v[k] = RowPerson(arg.rows[i])
        /\ \A k, l \in 1..Len(res.v) : k # l => PersonKey(res.v[k]) # PersonKey(res.v[l])

\* two eligible rows whose keys differ only in case were reduced to the first
C5_Witness ==
    /\ PeopleCalled
    /\ \E i, j \in Eligible :
           /\ i < j
           /\ i \in Kept
           /\ RowKey(arg.rows[i]) = RowKey(arg.rows[j])
           /\ Strip(arg.rows[i]["Email"]) # Strip(arg.rows[j]["Email"])
           /\ \E k \in 1..Len(res.v) : res.v[k] = RowPerson(arg.rows[i])
           /\ \A k \in 1..Len(res.v) : res.v[k] # RowPerson(arg.rows[j])
    /\ Len(res.v) >= 2

(***************************************************************************)
(* Dates, rounding and the listing of run_for_person.                      *)
(***************************************************************************)
NoDate == [none |-> TRUE]                  \* a NULL column, or no row at all
Date(y, m, d) == [y |-> y, m |-> m, d |-> d]

RECURSIVE ZeroPad(_, _)
\* format(n, "0<w>d") for n >= 0
ZeroPad(n, w) ==
    LET t == IntToStr(n)
    IN IF Len(t) >= w THEN t ELSE <<"0">> \o ZeroPad(n, w - 1)

\* f"{d.year:04d}-{d.month:02d}"
_to_yyyymm(d) == ZeroPad(d.y, 4) \o <<"-">> \o ZeroPad(d.m, 2)

\* d.strftime("%Y-%m-%d")
StrfDate(d) == _to_yyyymm(d) \o <<"-">> \o ZeroPad(d.d, 2)

\* no rounding at all
RoundTo_none(x, d) == x

(***************************************************************************)
(* round(x, d): the nearest multiple of 10^-d, a tie going to the even     *)
(* one.  (A double that is not exactly the decimal tie goes to the side it *)
(* lies on; the amounts and rates of the model have no such tie: their one *)
(* tie, 7.77 * 0.5 = 3.885, gives 3.88 in Python as here.)                 *)
(***************************************************************************)
RoundTo(x, d) ==
    IF x.e <= d THEN x
    ELSE LET unit == Pow10(x.e - d)
             q == x.m \div unit
             r == x.m % unit
             up == 2 * r > unit \/ (2 * r = unit /\ q % 2 = 1)
         IN Norm(IF up THEN q + 1 ELSE q, d)

\* f"{x:,.2f}": the number a total is printed as
Fmt2(x) == RoundTo(x, 2)

\* f"{int(round(pct*100))}%"
PctLabel(p) == IntToStr(RoundTo(DecMul(p, [m |-> 100, e |-> 0]), 0).m) \o PERCENT

\* the characters of codes and dates in code-point order
CodePoints ==
    <<" ", "-", "0", "1", "2", "3", "4", "5", "6", "7", "8", "9",
      "A", "B", "C", "a", "b", "c">>

CharRank(c) == CHOOSE i \in 1..Len(CodePoints) : CodePoints[i] = c

RECURSIVE TextLess(_, _)
\* a < b for str
TextLess(a, b) ==
    IF b = <<>> THEN FALSE
    ELSE IF a = <<>> THEN TRUE
    ELSE IF Head(a) # Head(b) THEN CharRank(Head(a)) < CharRank(Head(b))
    ELSE TextLess(Tail(a), Tail(b))

\* the order of sort_values(["date_creation", "codigo"])
RowBefore(a, b) ==
    \/ TextLess(a.date_creation, b.date_creation)
    \/ a.date_creation = b.date_creation /\ TextLess(a.codigo, b.codigo)

RECURSIVE InsertRow(_, _)
InsertRow(sorted, r) ==
    IF sorted = <<>> THEN <<r>>
    ELSE IF RowBefore(r, Head(sorted)) THEN <<r>> \o sorted
    ELSE <<Head(sorted)>> \o InsertRow(Tail(sorted), r)

RECURSIVE SortRows(_)
\* pd.DataFrame(out_rows).sort_values(["date_creation", "codigo"])
SortRows(rows) ==
    IF rows = <<>> THEN <<>>
    ELSE InsertRow(SortRows(SubSeq(rows, 1, Len(rows) - 1)), rows[Len(rows)])

(***************************************************************************)
(* mysql_repo.get_dates_by_shipment_number over the table db: the dates of *)
(* the row of that SHIPMENT_NUMBER, (None, None) without one or for an     *)
(* empty number.                                                           *)
(***************************************************************************)
NoDates == [creation |-> NoDate, comission |-> NoDate]

get_dates_by_shipment_number(table, shipment_number) ==
    IF shipment_number = <<>> THEN NoDates
    ELSE IF shipment_number \in DOMAIN table THEN table[shipment_number]
    ELSE NoDates

\* filter_apurado_by_vendedor; the names of the model hold no regex operator
filter_apurado_by_vendedor(ap, nome) ==
    IF "Código" \notin ap.cols THEN Raised("RuntimeError", "coluna Código")
    ELSE IF "Vendedor" \notin ap.cols THEN Raised("RuntimeError", "coluna Vendedor")
    ELSE LET has(r) == Contains(Lower(r["Vendedor"]), Lower(nome))
         IN Returned(SelectSeq(ap.rows, has))

(***************************************************************************)
(* main and run_for_person.  env is os.environ: a function from the names  *)
(* that are set to their texts.                                            *)
(***************************************************************************)
Getenv(name, default) == IF name \in DOMAIN env THEN env[name] ELSE default

RECURSIVE Split(_, _)
\* s.split(sep) for a one-character sep
Split(s, sep) ==
    IF \A i \in 1..Len(s) : s[i] # sep THEN <<s>>
    ELSE LET i == CHOOSE k \in 1..Len(s) : s[k] = sep /\ \A j \in 1..(k - 1) : s[j] # sep
         IN <<SubSeq(s, 1, i - 1)>> \o Split(SubSeq(s, i + 1, Len(s)), sep)

P2025_08 == <<"2", "0", "2", "5", "-", "0", "8">>
P2025_09 == <<"2", "0", "2", "5", "-", "0", "9">>
P2025_10 == <<"2", "0", "2", "5", "-", "1", "0">>
P2025_12 == <<"2", "0", "2", "5", "-", "1", "2">>
COMMA == <<",">>

\* lines 273-277
ReadPay == Strip(Getenv("TEST_PAY_YYYYMM", P2025_12))

ReadCompetencias ==
    LET raw == Strip(Getenv("TEST_COMPETENCIAS",
                            P2025_08 \o COMMA \o P2025_09 \o COMMA \o P2025_10))
        pieces == Split(raw, ",")
        kept(c) == Strip(c) # <<>>
        some == SelectSeq(pieces, kept)
    IN [i \in 1..Len(some) |-> Strip(some[i])]

debug_code == Strip(Getenv("DEBUG_CODE", <<>>))

GP_COL == "Profit Liquido"

\* lines 181-186: the rows the loop passes over before any lookup
SkipsRow_debug_only(codigo, debug) == debug # <<>> /\ codigo # debug

SkipsRow(codigo, debug) == codigo = <<>> \/ (debug # <<>> /\ codigo # debug)

\* the verdict of lines 199-215 that ignores the creation month
Verdict_any_period(dates, comp, pay) ==
    IF dates.creation = NoDate \/ dates.comission = NoDate THEN "none"
    ELSE IF _to_yyyymm(dates.comission) # pay THEN "pay"
    ELSE "ok"

\* the verdict of lines 199-215 that ignores the settlement month
Verdict_no_pay(dates, comp, pay) ==
    IF dates.creation = NoDate \/ dates.comission = NoDate THEN "none"
    ELSE IF _to_yyyymm(dates.creation) # comp THEN "competencia"
    ELSE "ok"

\* lines 199-215: why a looked-up row is rejected, or "ok"
Verdict(dates, comp, pay) ==
    IF dates.creation = NoDate \/ dates.comission = NoDate THEN "none"
    ELSE IF _to_yyyymm(dates.creation) # comp THEN "competencia"
    ELSE IF _to_yyyymm(dates.comission) # pay THEN "pay"
    ELSE "ok"

\* lines 217-231: the line of the listing for an accepted row
OutRow(r, codigo, dates, nivel, rate) ==
    LET gp == parse_ptbr_money(PyStr(CellOr(r, GP_COL))).v
    IN [codigo |-> codigo,
        date_creation |-> StrfDate(dates.creation),
        date_comission |-> StrfDate(dates.comission),
        nivel |-> nivel,
        percentual |-> PctLabel(rate),
        gp |-> gp,
        valor_comissao |-> RoundTo(DecMul(gp, rate), 2)]

\* the section of a period that prints nothing when no row matched
SectionEvents_silent(who, nome, comp, pay, rows, gp, com) ==
    IF rows = <<>> THEN <<>>
    ELSE <<[k |-> "section", who |-> who, nome |-> nome, comp |-> comp, pay |-> pay],
           [k |-> "table", who |-> who, rows |-> SortRows(rows)],
           [k |-> "subtotal", who |-> who, gp |-> Fmt2(gp), com |-> Fmt2(com)]>>

\* lines 237-249: what the end of a period prints
SectionEvents(who, nome, comp, pay, rows, gp, com) ==
    <<[k |-> "section", who |-> who, nome |-> nome, comp |-> comp, pay |-> pay]>>
    \o (IF rows = <<>>
        THEN <<[k |-> "empty", who |-> who]>>
        ELSE <<[k |-> "table", who |-> who, rows |-> SortRows(rows)],
               [k |-> "subtotal", who |-> who, gp |-> Fmt2(gp), com |-> Fmt2(com)]>>)

\* a total that starts from what the previous call left
StartTotal_carry(left) == left

\* lines 167-168: gp_total_all = 0.0, com_total_all = 0.0
StartTotal(left) == Zero

Abort(e) ==
    /\ pc' = "aborted"
    /\ err' = e

\* sheets_client._gc under lru_cache(maxsize=1): the first call authorizes a
\* client, every later call of the process gets that one
_gc(authorized) == IF authorized = 0 THEN 1 ELSE authorized

\* mysql_repo lines 45-58 as one step: _mysql_conn() opens a connection and the
\* finally clause closes it before the call returns
LookedUp(cs) == Append(cs, "closed")

\* main, lines 264-281: the configuration check; the three sheets are read
MainConfig ==
    /\ pc = "start"
    /\ IF Getenv("GSHEETS_PARAM_KEY", <<>>) = <<>> \/ Getenv("GSHEETS_SPREADSHEET_KEY", <<>>) = <<>>
       THEN /\ Abort(Raised("RuntimeError", "Defina GSHEETS_PARAM_KEY e GSHEETS_SPREADSHEET_KEY"))
            /\ UNCHANGED <<competencias, pay_yyyymm, clients>>
       ELSE /\ pc' = "precheck" /\ err' = err
            /\ pay_yyyymm' = ReadPay
            /\ competencias' = ReadCompetencias
            /\ clients' = _gc(_gc(_gc(clients)))     \* lines 279-281, three reads
    /\ UNCHANGED <<conns, lk, pay_col>>
    /\ UNCHANGED <<fn, arg, res, env, df_niveis, df_meta, df_ap, db, people, pidx, pct,
                   df_person, cidx, ridx, out_rows, gp_total, com_total, gp_total_all,
                   com_total_all, gp_geral, com_geral, output, lookups, ledger, returned,
                   run, first>>

\* _debug_precheck_in_apurados (line 283): prints, and adds a column to df_ap
DebugPrecheck ==
    /\ UNCHANGED handleVars
    /\ UNCHANGED pay_col
    /\ pc = "precheck"
    /\ pc' = "roster"
    /\ IF debug_code = <<>>
       THEN UNCHANGED <<df_ap, output>>
       ELSE IF "Código" \notin df_ap.cols
            THEN /\ output' = Append(output, [k |-> "debug", what |-> "sem coluna"])
                 /\ df_ap' = df_ap
            ELSE LET cols2 == df_ap.cols \cup {"_codigo_norm"}
                     rows2 == [i \in 1..Len(df_ap.rows) |->
                                  [c \in cols2 |-> IF c = "_codigo_norm"
                                                   THEN Strip(df_ap.rows[i]["Código"])
                                                   ELSE df_ap.rows[i][c]]]
                     hits == {i \in 1..Len(rows2) : rows2[i]["_codigo_norm"] = debug_code}
                 IN /\ df_ap' = Table(cols2, rows2)
                    /\ output' = Append(output, [k |-> "debug", what |-> "precheck",
                                                 hits |-> Cardinality(hits)])
    /\ UNCHANGED <<fn, arg, res, env, competencias, pay_yyyymm, df_niveis, df_meta, db, err, people, pidx, pct,
                   df_person, cidx, ridx, out_rows, gp_total, com_total, gp_total_all,
                   com_total_all, gp_geral, com_geral, lookups, ledger, returned, run, first>>

\* main, lines 285-290
Roster ==
    /\ UNCHANGED handleVars
    /\ UNCHANGED pay_col
    /\ pc = "roster"
    /\ LET got == get_sales_exec_people(df_meta)
       IN IF got.raised THEN Abort(got) /\ UNCHANGED <<people, pidx>>
          ELSE IF got.v = <<>>
               THEN /\ Abort(Raised("RuntimeError", "ninguém com Função = Sales Executive"))
                    /\ people' = got.v
                    /\ pidx' = pidx
               ELSE /\ people' = got.v
                    /\ pidx' = 1
                    /\ pc' = "person"
                    /\ err' = err
    /\ gp_geral' = Zero
    /\ com_geral' = Zero
    /\ UNCHANGED <<fn, arg, res, env, competencias, pay_yyyymm, df_niveis, df_meta, df_ap, db, pct, df_person, cidx,
                   ridx, out_rows, gp_total, com_total, gp_total_all, com_total_all,
                   output, lookups, ledger, returned, run, first>>

\* run_for_person, lines 158-178: the checks, the rate, the person's rows, the banner
PersonBegin ==
    /\ UNCHANGED handleVars
    /\ UNCHANGED pay_col
    /\ pc = "person"
    /\ pidx <= Len(people)
    /\ LET p == people[pidx]
           rate == get_percentual_sales_exec(df_niveis, p.nivel)
           mine == filter_apurado_by_vendedor(df_ap, p.nome)
           stay == UNCHANGED <<pct, df_person, cidx, ridx, out_rows, gp_total, com_total,
                               gp_total_all, com_total_all, output>>
       IN IF GP_COL \notin df_ap.cols
          THEN Abort(Raised("RuntimeError", "coluna Profit Liquido")) /\ stay
          ELSE IF rate.raised THEN Abort(rate) /\ stay
          ELSE IF mine.raised THEN Abort(mine) /\ stay
          ELSE /\ pct' = rate.v
               /\ df_person' = mine.v
               /\ gp_total_all' = StartTotal(gp_total_all)
               /\ com_total_all' = StartTotal(com_total_all)
               /\ output' = Append(output, [k |-> "person", who |-> pidx, nome |-> p.nome,
                                            email |-> p.email, nivel |-> p.nivel,
                                            percentual |-> PctLabel(rate.v)])
               /\ cidx' = 1 /\ ridx' = 1
               /\ out_rows' = <<>> /\ gp_total' = Zero /\ com_total' = Zero
               /\ pc' = "rows" /\ err' = err
    /\ UNCHANGED <<fn, arg, res, env, competencias, pay_yyyymm, df_niveis, df_meta, df_ap, db, people, pidx,
                   gp_geral, com_geral, lookups, ledger, returned, run, first>>

\* run_for_person, lines 180-235: one row of df_person for the current period
RowStep ==
    /\ UNCHANGED <<clients, lk, pay_col>>
    /\ pc = "rows"
    /\ cidx <= Len(competencias)
    /\ ridx <= Len(df_person)
    /\ LET r == df_person[ridx]
           comp == competencias[cidx]
           codigo == Strip(CellOr(r, "Código"))
       IN IF SkipsRow(codigo, debug_code)
          THEN /\ ridx' = ridx + 1
               /\ UNCHANGED <<out_rows, gp_total, com_total, output, lookups, conns>>
          ELSE LET dates == get_dates_by_shipment_number(db, codigo)
                   verdict == Verdict(dates, comp, pay_yyyymm)
                   line == OutRow(r, codigo, dates, people[pidx].nivel, pct)
                   said == IF debug_code = <<>> THEN <<>>
                           ELSE <<[k |-> "debug", what |-> "row", codigo |-> codigo,
                                   comp |-> comp],
                                  [k |-> "debug", what |-> verdict]>>
               IN /\ lookups' = Append(lookups, [run |-> run, who |-> pidx, c |-> cidx,
                                                 r |-> ridx, codigo |-> codigo,
                                                 listed |-> verdict = "ok"])
                  /\ conns' = LookedUp(conns)
                  /\ output' = output \o said
                  /\ IF verdict # "ok"
                     THEN /\ ridx' = ridx + 1
                          /\ UNCHANGED <<out_rows, gp_total, com_total>>
                     ELSE /\ gp_total' = DecAdd(gp_total, line.gp)
                          /\ com_total' = DecAdd(com_total, line.valor_comissao)
                          /\ out_rows' = Append(out_rows, line)
                          /\ ridx' = IF debug_code = <<>> THEN ridx + 1
                                     ELSE Len(df_person) + 1      \* break
    /\ UNCHANGED <<fn, arg, res, env, competencias, pay_yyyymm, df_niveis, df_meta, df_ap, db, pc, err, people, pidx,
                   pct, df_person, cidx, gp_total_all, com_total_all, gp_geral, com_geral,
                   ledger, returned, run, first>>

\* run_for_person, lines 237-252 and 176-178: the section of the period that ended
PeriodEnd ==
    /\ UNCHANGED handleVars
    /\ UNCHANGED pay_col
    /\ pc = "rows"
    /\ cidx <= Len(competencias)
    /\ ridx > Len(df_person)
    /\ output' = output \o SectionEvents(pidx, people[pidx].nome, competencias[cidx],
                                         pay_yyyymm, out_rows, gp_total, com_total)
    /\ ledger' = Append(ledger, [run |-> run, who |-> pidx, c |-> cidx,
                                 comp |-> competencias[cidx], rows |-> out_rows,
                                 gp |-> gp_total, com |-> com_total])
    /\ IF out_rows = <<>>
       THEN UNCHANGED <<gp_total_all, com_total_all>>
       ELSE /\ gp_total_all' = DecAdd(gp_total_all, gp_total)
            /\ com_total_all' = DecAdd(com_total_all, com_total)
    /\ cidx' = cidx + 1 /\ ridx' = 1
    /\ out_rows' = <<>> /\ gp_total' = Zero /\ com_total' = Zero
    /\ UNCHANGED <<fn, arg, res, env, competencias, pay_yyyymm, df_niveis, df_meta, df_ap, db, pc, err, people, pidx,
                   pct, df_person, gp_geral, com_geral, lookups, returned, run, first>>

\* run_for_person, lines 254-260, and main, lines 302-303
PersonEnd ==
    /\ UNCHANGED handleVars
    /\ UNCHANGED pay_col
    /\ pc = "rows"
    /\ cidx > Len(competencias)
    /\ output' = Append(output, [k |-> "person_total", who |-> pidx,
                                 gp |-> Fmt2(gp_total_all), com |-> Fmt2(com_total_all)])
    /\ returned' = Append(returned, [run |-> run, who |-> pidx,
                                     gp |-> gp_total_all, com |-> com_total_all])
    /\ gp_geral' = DecAdd(gp_geral, gp_total_all)
    /\ com_geral' = DecAdd(com_geral, com_total_all)
    /\ pidx' = pidx + 1
    /\ pc' = "person"
    /\ UNCHANGED <<fn, arg, res, env, competencias, pay_yyyymm, df_niveis, df_meta, df_ap, db, err, people, pct,
                   df_person, cidx, ridx, out_rows, gp_total, com_total, gp_total_all,
                   com_total_all, lookups, ledger, run, first>>

\* main, lines 305-309
MainEnd ==
    /\ UNCHANGED handleVars
    /\ UNCHANGED pay_col
    /\ pc = "person"
    /\ pidx > Len(people)
    /\ output' = Append(output, [k |-> "grand_total", gp |-> Fmt2(gp_geral),
                                 com |-> Fmt2(com_geral)])
    /\ pc' = "done"
    /\ UNCHANGED <<fn, arg, res, env, competencias, pay_yyyymm, df_niveis, df_meta, df_ap, db, err, people, pidx, pct,
                   df_person, cidx, ridx, out_rows, gp_total, com_total, gp_total_all,
                   com_total_all, gp_geral, com_geral, lookups, ledger, returned, run,
                   first>>

\* the aggregation of main, lines 285-309, run a second time in the same process
\* over the tables the first one used; what the first one printed is kept aside
Rerun ==
    /\ UNCHANGED handleVars
    /\ UNCHANGED pay_col
    /\ pc = "done"
    /\ run = 1
    /\ run' = 2
    /\ first' = [first EXCEPT !.output = output, !.gp_geral = gp_geral,
                              !.com_geral = com_geral]
    /\ output' = <<>>
    /\ pc' = "roster"
    /\ UNCHANGED <<fn, arg, res, env, competencias, pay_yyyymm, df_niveis, df_meta, df_ap, db, err, people, pidx, pct,
                   df_person, cidx, ridx, out_rows, gp_total, com_total, gp_total_all,
                   com_total_all, gp_geral, com_geral, lookups, ledger, returned>>

Next ==
    \/ MainConfig
    \/ DebugPrecheck
    \/ Roster
    \/ PersonBegin
    \/ RowStep
    \/ PeriodEnd
    \/ PersonEnd
    \/ MainEnd
    \/ Rerun

(***************************************************************************)
(* The runs of main that are checked: environments, sheets and shipment    *)
(* tables.                                                                 *)
(***************************************************************************)
KEY == <<"k">>
COD1 == <<"c", "1">>
COD2 == <<"c", "2">>
COD3 == <<"c", "3">>
SENIOR == <<"S", "e", "n", "i", "o", "r">>
JUNIOR == <<"J", "u", "n", "i", "o", "r">>

EnvNames == {"GSHEETS_PARAM_KEY", "GSHEETS_SPREADSHEET_KEY", "DEBUG_CODE",
             "TEST_COMPETENCIAS", "TEST_PAY_YYYYMM"}

Env(param, sheet, debug, comps) ==
    [n \in EnvNames |->
        CASE n = "GSHEETS_PARAM_KEY" -> param
          [] n = "GSHEETS_SPREADSHEET_KEY" -> sheet
          [] n = "DEBUG_CODE" -> debug
          [] n = "TEST_COMPETENCIAS" -> comps
          [] OTHER -> <<" ">> \o P2025_12]

\* only the two keys set: every other setting takes its default
EnvDefaults == [n \in {"GSHEETS_PARAM_KEY", "GSHEETS_SPREADSHEET_KEY"} |-> KEY]

EnvsOK ==
    {Env(KEY, KEY, <<>>, P2025_08),
     Env(KEY, KEY, <<>>, <<" ">> \o P2025_08 \o <<",", " ", ",">> \o P2025_08),
     Env(KEY, KEY, <<" ">> \o COD1, P2025_08 \o COMMA \o P2025_09),
     EnvDefaults}

EnvsBad ==
    {Env(KEY, <<>>, <<>>, P2025_08),
     [n \in {"GSHEETS_SPREADSHEET_KEY"} |-> KEY]}

NiveisBase ==
    Table({"Niveis", "Sales Executive"},
          <<NivelRow(GUARDIAO, P50), NivelRow(APRENDIZ, P10),
            NivelRow(SENIOR, <<"a", "b", "c">>), NivelRow(JUNIOR, <<"x", "%">>)>>)

ANA_G == MetaRow(SALES_EXECUTIVE, ANA, MAIL_ANA, GUARDIAO_ACENTO)
ANA_DUP == MetaRow(SALES_LOWER, <<"a", "n", "a">>, MAIL_ANA_CAIXA, APRENDIZ)
BOB_A == MetaRow(SALES_EXECUTIVE, BOB, <<>>, APRENDIZ)
BOB_M == MetaRow(SALES_EXECUTIVE, BOB, <<>>, MESTRE)
BOB_S == MetaRow(SALES_EXECUTIVE, BOB, <<>>, SENIOR)
BOB_J == MetaRow(SALES_EXECUTIVE, BOB, <<>>, JUNIOR)
EVE_OPS == MetaRow(OPERATIONS, EVE, <<>>, GUARDIAO)

MainMetaTables ==
    {Table(MetaRequired, rows) :
        rows \in {<<ANA_G>>, <<BOB_A, EVE_OPS, ANA_G>>, <<ANA_G, BOB_M>>,
                  <<ANA_G, ANA_DUP, BOB_J>>}}

ApCols == {"Código", "Vendedor", GP_COL}

ApRow(codigo, vendedor, gp) ==
    [c \in ApCols |-> CASE c = "Código" -> codigo [] c = "Vendedor" -> vendedor [] OTHER -> gp]

MIL == <<"1", ".", "0", "0", "0", ",", "0", "0">>
SETE == <<"7", ",", "7", "7">>

\* rows of the Apurado sheet: two with the same code, one with a blank code, one
\* with a padded code, a name inside a longer one, a value that is no number and
\* a code the shipment table does not have
ApRows ==
    <<ApRow(COD1, <<"A", "N", "A", " ", "L", "I", "M", "A">>, MIL),
      ApRow(COD2, BOB, SETE),
      ApRow(<<" ", " ">>, ANA, MIL),
      ApRow(<<" ">> \o COD2 \o <<" ">>, <<"a", "n", "a", " ", "e", " ", "b", "o", "b">>, <<"x">>),
      ApRow(COD3, ANA, SETE),
      ApRow(COD1, ANA, SETE)>>

RECURSIVE RowsAt(_, _, _)
\* the rows of list at the positions of S from i on, in the order of the list
RowsAt(list, S, i) ==
    IF i > Len(list) THEN <<>>
    ELSE (IF i \in S THEN <<list[i]>> ELSE <<>>) \o RowsAt(list, S, i + 1)

\* the sheets of up to MaxRows of these rows
ApTables ==
    {Table(ApCols, RowsAt(ApRows, S, 1)) :
        S \in {T \in SUBSET (1..Len(ApRows)) : Cardinality(T) <= MaxRows}}

Dates(creation, comission) == [creation |-> creation, comission |-> comission]

Shipments(d1, d2) == [c \in {COD1, COD2} |-> IF c = COD1 THEN d1 ELSE d2]

DbTables ==
    {Shipments(Dates(Date(2025, 8, 15), Date(2025, 12, 1)),
               Dates(Date(2025, 8, 3), Date(2025, 12, 9))),
     Shipments(Dates(Date(2025, 8, 15), NoDate),
               Dates(NoDate, Date(2025, 12, 9))),
     Shipments(Dates(Date(2025, 8, 15), Date(2025, 12, 1)),
               Dates(Date(2025, 8, 3), Date(2025, 11, 30))),
     Shipments(Dates(Date(2025, 9, 30), Date(2025, 12, 1)),
               Dates(Date(2024, 8, 3), Date(2025, 12, 9)))}

TwoRows ==
    Table(ApCols, <<ApRow(COD1, <<"A", "N", "A", " ", "L", "I", "M", "A">>, MIL),
                    ApRow(COD2, BOB, SETE)>>)

\* runs in which every sheet has its columns and both keys are set
InitSound ==
    /\ env \in EnvsOK
    /\ df_niveis = NiveisBase
    /\ df_meta \in MainMetaTables
    /\ df_ap \in ApTables
    /\ db \in DbTables

\* runs with a key unset or a column missing
InitFaulty ==
    /\ env \in EnvsBad \cup {Env(KEY, KEY, <<>>, P2025_08),
                             Env(KEY, KEY, COD1, P2025_08)}
    /\ df_niveis \in {NiveisBase, Without(NiveisBase, {"Niveis"}),
                      Without(NiveisBase, {"Sales Executive"})}
    /\ df_meta \in {Table(MetaRequired, <<ANA_G, BOB_A>>),
                    Table(MetaRequired, <<ANA_G, BOB_S>>),
                    Table(MetaRequired, <<BOB_M>>),
                    Table(MetaRequired, <<EVE_OPS>>),
                    Without(Table(MetaRequired, <<ANA_G, BOB_A>>), {"Email"})}
    /\ df_ap \in {TwoRows} \cup {Without(TwoRows, {c}) : c \in ApCols}
    /\ db \in {Shipments(Dates(Date(2025, 8, 15), Date(2025, 12, 1)),
                          Dates(Date(2025, 8, 3), Date(2025, 12, 9)))}

Init ==
    /\ fn = "main" /\ arg = <<>> /\ res = Pending
    /\ InitSound \/ InitFaulty
    /\ pc = "start" /\ err = NoErr
    /\ competencias = <<>> /\ pay_yyyymm = <<>>
    /\ people = <<>> /\ pidx = 0
    /\ pct = NoPct /\ df_person = <<>> /\ cidx = 0 /\ ridx = 0
    /\ out_rows = <<>>
    /\ gp_total = Zero /\ com_total = Zero
    /\ gp_total_all = Zero /\ com_total_all = Zero
    /\ gp_geral = Zero /\ com_geral = Zero
    /\ output = <<>> /\ lookups = <<>> /\ ledger = <<>> /\ returned = <<>>
    /\ run = 1
    /\ first = [niveis |-> df_niveis, meta |-> df_meta, ap |-> df_ap, output |-> <<>>,
                gp_geral |-> Zero, com_geral |-> Zero]
    /\ clients = 0 /\ conns = <<>> /\ lk = NoLookup
    /\ pay_col = <<>>

Spec == Init /\ [][Next]_vars

(***************************************************************************)
(* The claims about main and run_for_person.                               *)
(***************************************************************************)
RECURSIVE SumDec(_)
\* the sum of a sequence of numbers
SumDec(xs) == IF xs = <<>> THEN Zero ELSE DecAdd(Head(xs), SumDec(Tail(xs)))

Gps(rows) == [i \in 1..Len(rows) |-> rows[i].gp]
Coms(rows) == [i \in 1..Len(rows) |-> rows[i].valor_comissao]

\* the dates the shipment table holds for a code
DatesFor(code) == IF code \in DOMAIN db THEN db[code] ELSE NoDates

\* a row has a non-blank code, both dates, and the two requested months
IncludedBy(r, period) ==
    LET code == Strip(r["Código"])
        d == DatesFor(code)
    IN /\ code # <<>>
       /\ d.creation # NoDate
       /\ d.comission # NoDate
       /\ _to_yyyymm(d.creation) = period
       /\ _to_yyyymm(d.comission) = pay_yyyymm

\* the rows of the Apurado sheet whose salesperson contains the person's name
RowsOf(who) ==
    LET mine(r) == Contains(Lower(r["Vendedor"]), Lower(people[who].nome))
    IN SelectSeq(df_ap.rows, mine)

\* the rows among rs that the claim includes in a period
IncludedRows(rs, period) ==
    LET inc(r) == IncludedBy(r, period)
    IN SelectSeq(rs, inc)

\* a listing holds exactly the given rows of the sheet, in their order
ListsExactly(listing, rs) ==
    /\ Len(listing) = Len(rs)
    /\ \A k \in 1..Len(rs) :
           /\ listing[k].codigo = Strip(rs[k]["Código"])
           /\ listing[k].gp = parse_ptbr_money(PyStr(rs[k][GP_COL])).v

InRowLoop == fn = "main" /\ pc = "rows" /\ cidx <= Len(competencias)

(***************************************************************************)
(* C1: with no debug code set, a salesperson-matched row with a non-blank  *)
(* code is in the listing and sums of a period if and only if the lookup   *)
(* of its code gives both dates, the creation month is the period and the  *)
(* settlement month is the requested settlement period; every other row    *)
(* adds nothing to any sum.                                                *)
(***************************************************************************)
C1_IncludedIff ==
    (fn = "main" /\ debug_code = <<>>) =>
        /\ InRowLoop =>
               LET inc == IncludedRows(SubSeq(df_person, 1, ridx - 1), competencias[cidx])
               IN /\ df_person = RowsOf(pidx)
                  /\ ListsExactly(out_rows, inc)
                  /\ gp_total = SumDec(Gps(out_rows))
                  /\ com_total = SumDec(Coms(out_rows))
        /\ \A n \in 1..Len(ledger) :
               LET e == ledger[n]
               IN /\ ListsExactly(e.rows, IncludedRows(RowsOf(e.who), e.comp))
                  /\ e.gp = SumDec(Gps(e.rows))
                  /\ e.com = SumDec(Coms(e.rows))

\* a period ended with one row listed and another, with a code, left out
C1_Witness ==
    /\ fn = "main" /\ debug_code = <<>>
    /\ \E n \in 1..Len(ledger) :
           /\ Len(ledger[n].rows) >= 1
           /\ \E k \in 1..Len(RowsOf(ledger[n].who)) :
                  LET r == RowsOf(ledger[n].who)[k]
                  IN /\ Strip(r["Código"]) # <<>>
                     /\ DatesFor(Strip(r["Código"])).creation # NoDate
                     /\ DatesFor(Strip(r["Código"])).comission # NoDate
                     /\ _to_yyyymm(DatesFor(Strip(r["Código"])).creation) = ledger[n].comp
                     /\ ~IncludedBy(r, ledger[n].comp)

\* the report events printed so far (what the debug code prints is not the report)
Report == SelectSeq(output, LAMBDA ev : ev.k # "debug")

(***************************************************************************)
(* C2: whenever a run of main aborts with a hard failure, for the first    *)
(* person of the roster or a later one, that run has printed no report     *)
(* output.                                                                 *)
(***************************************************************************)
C2_NoPartialOutput == (fn = "main" /\ pc = "aborted") => Report = <<>>

\* c is x rounded to 2 decimal places: a multiple of 0.01 within 0.005 of x
IsRounded2(c, x) ==
    LET diff == DecAdd(c, [m |-> 0 - x.m, e |-> x.e])
        mag == IF diff.m < 0 THEN 0 - diff.m ELSE diff.m
    IN /\ c.e <= 2
       /\ mag * 1000 <= 5 * Pow10(diff.e)

\* the rate of a person of the roster, from the level sheet as first read
RateOf(who) == get_percentual_sales_exec(first.niveis, people[who].nivel).v

Pick(seq, run_, who) ==
    LET mine(e) == e.run = run_ /\ e.who = who
    IN SelectSeq(seq, mine)

OfRun(seq, run_) ==
    LET mine(e) == e.run = run_
    IN SelectSeq(seq, mine)

GpOf(seq) == [i \in 1..Len(seq) |-> seq[i].gp]
ComOf(seq) == [i \in 1..Len(seq) |-> seq[i].com]

(***************************************************************************)
(* C3: the commission of each included row is its gross value times the    *)
(* person's rate rounded to 2 decimal places; each period subtotal is the  *)
(* sum of the gross values and of the rounded commissions of the rows of   *)
(* that period; what run_for_person returns is the sum of its period       *)
(* subtotals; the grand total main prints is the sum of what the calls     *)
(* returned.  One person at 50% with one included row of gross 1000.00     *)
(* gives commission 500.00 and grand total 500.00.                         *)
(***************************************************************************)
C3_Totals ==
    fn = "main" =>
        /\ \A n \in 1..Len(ledger) :
               LET e == ledger[n]
               IN /\ \A k \in 1..Len(e.rows) :
                         IsRounded2(e.rows[k].valor_comissao,
                                    DecMul(e.rows[k].gp, RateOf(e.who)))
                  /\ e.gp = SumDec(Gps(e.rows))
                  /\ e.com = SumDec(Coms(e.rows))
        /\ \A n \in 1..Len(returned) :
               LET t == returned[n]
               IN /\ t.gp = SumDec(GpOf(Pick(ledger, t.run, t.who)))
                  /\ t.com = SumDec(ComOf(Pick(ledger, t.run, t.who)))
        /\ pc = "done" =>
               /\ gp_geral = SumDec(GpOf(OfRun(returned, run)))
               /\ com_geral = SumDec(ComOf(OfRun(returned, run)))
               /\ output[Len(output)] =
                      [k |-> "grand_total", gp |-> Fmt2(gp_geral), com |-> com_geral]
        /\ (/\ pc = "done"
            /\ Len(people) = 1
            /\ RateOf(1) = [m |-> 5, e |-> 1]
            /\ \E n \in 1..Len(ledger) :
                   /\ ledger[n].run = run
                   /\ Gps(ledger[n].rows) = <<[m |-> 1000, e |-> 0]>>
                   /\ \A o \in 1..Len(ledger) :
                          (ledger[o].run = run /\ o # n) => ledger[o].rows = <<>>)
           => /\ com_geral = [m |-> 500, e |-> 0]
              /\ output[Len(output)].com = [m |-> 500, e |-> 0]
              /\ \A n \in 1..Len(ledger) :
                     \A k \in 1..Len(ledger[n].rows) :
                         ledger[n].rows[k].valor_comissao = [m |-> 500, e |-> 0]

\* the end-to-end scenario: one person at 50%, one included row of gross 1000.00
C3_Witness ==
    /\ fn = "main" /\ pc = "done" /\ run = 1
    /\ Len(people) = 1
    /\ pct = [m |-> 5, e |-> 1]
    /\ Len(ledger) = 1
    /\ Gps(ledger[1].rows) = <<[m |-> 1000, e |-> 0]>>
    /\ ledger[1].comp = P2025_08 /\ pay_yyyymm = P2025_12
    /\ output[Len(output)].com = [m |-> 500, e |-> 0]

\* how many times this run looked up the dates of row r of person who in period c
Calls(who, c, r) ==
    LET mine(l) == l.run = run /\ l.who = who /\ l.c = c /\ l.r = r
    IN Len(SelectSeq(lookups, mine))

RECURSIVE SumNat(_)
SumNat(xs) == IF xs = <<>> THEN 0 ELSE Head(xs) + SumNat(Tail(xs))

\* how many times this run looked up the dates of row r of person who
CallsOfRow(who, r) ==
    SumNat([c \in 1..Len(competencias) |-> Calls(who, c, r)])

BlankCode(r) == Strip(r["Código"]) = <<>>

PersonLoopOver == fn = "main" /\ pc = "rows" /\ cidx > Len(competencias)

(***************************************************************************)
(* C7 as stated: when run_for_person has gone through every requested      *)
(* period for one person, the date lookup has been invoked exactly one     *)
(* time for each salesperson-matched row with a non-blank code, whatever   *)
(* the number of requested periods, and never for a row with a blank code. *)
(***************************************************************************)
C7_OneLookupPerRow ==
    (PersonLoopOver /\ debug_code = <<>>) =>
        \A r \in 1..Len(df_person) :
            CallsOfRow(pidx, r) = IF BlankCode(df_person[r]) THEN 0 ELSE 1

(***************************************************************************)
(* C7 amended: the date lookup is invoked once per requested period for    *)
(* each salesperson-matched row with a non-blank code, so as many times    *)
(* per row as there are requested periods when no debug code is set, at    *)
(* most once per period and row, only for the debug code and up to its     *)
(* first included row when one is set, and never for a row with a blank    *)
(* code.                                                                   *)
(***************************************************************************)
C7_OneLookupPerRowPerPeriod ==
    (fn = "main" /\ pc = "rows") =>
        \A r \in 1..Len(df_person) :
            LET codigo == Strip(df_person[r]["Código"])
            IN /\ \A c \in 1..Len(competencias) :
                      LET passed == c < cidx \/ (c = cidx /\ r < ridx)
                      IN Calls(pidx, c, r) =
                             IF passed /\ (debug_code = <<>> \/ codigo = debug_code)
                                       /\ codigo # <<>>
                                       /\ \A q \in 1..(r - 1) :
                                              \/ debug_code = <<>>
                                              \/ Strip(df_person[q]["Código"]) # debug_code
                                              \/ ~IncludedBy(df_person[q], competencias[c])
                             THEN 1 ELSE 0
               /\ BlankCode(df_person[r]) => CallsOfRow(pidx, r) = 0
               /\ (PersonLoopOver /\ debug_code = <<>> /\ ~BlankCode(df_person[r]))
                      => CallsOfRow(pidx, r) = Len(competencias)
               /\ \A n \in 1..Len(lookups) :
                      (lookups[n].run = run /\ lookups[n].who = pidx /\ lookups[n].r = r)
                          => lookups[n].codigo = codigo

\* several periods were requested and a person had a row with a code and a row without
C7_Witness ==
    /\ PersonLoopOver /\ debug_code = <<>>
    /\ Len(competencias) >= 2
    /\ \E r \in 1..Len(df_person) :
           ~BlankCode(df_person[r]) /\ CallsOfRow(pidx, r) = Len(competencias)
    /\ \E r \in 1..Len(df_person) : BlankCode(df_person[r])

\* the rows of a table cut down to the given columns
Restrict(rows, cols) ==
    [i \in 1..Len(rows) |-> [c \in cols |-> rows[i][c]]]

\* what the aggregation printed: all but the line of the precheck of main
Aggregated(out) ==
    SelectSeq(out, LAMBDA ev : ~(ev.k = "debug" /\ ev.what = "precheck"))

Unrun(seq) ==
    [i \in 1..Len(seq) |-> [f \in DOMAIN seq[i] \ {"run"} |-> seq[i][f]]]

(***************************************************************************)
(* C8: a second run on the same level, metadata and transaction tables and *)
(* the same date-lookup results gives the same per-period, per-person and  *)
(* grand totals (and prints the same report) as the first, and the rows    *)
(* and values of the input tables stay as they were read: the level and    *)
(* metadata tables are never changed, and the transaction table keeps its  *)
(* rows and the values of its columns (the precheck of main, with a debug  *)
(* code set, adds its helper column to it and nothing else does).          *)
(***************************************************************************)
C8_Idempotent ==
    fn = "main" =>
        /\ df_niveis = first.niveis
        /\ df_meta = first.meta
        /\ df_ap.cols \ {"_codigo_norm"} = first.ap.cols
        /\ Restrict(df_ap.rows, first.ap.cols) = Restrict(first.ap.rows, first.ap.cols)
        /\ (debug_code = <<>> \/ pc \in {"start", "precheck"}) => df_ap = first.ap
        /\ (run = 2 /\ pc = "done") =>
               /\ Unrun(OfRun(ledger, 2)) = Unrun(OfRun(ledger, 1))
               /\ Unrun(OfRun(returned, 2)) = Unrun(OfRun(returned, 1))
               /\ gp_geral = first.gp_geral
               /\ com_geral = first.com_geral
               /\ output = Aggregated(first.output)

\* a second run over two people ended with a grand total that is not zero
C8_Witness ==
    /\ fn = "main" /\ run = 2 /\ pc = "done"
    /\ Len(people) = 2
    /\ com_geral # Zero
    /\ \E n \in 1..Len(returned) : returned[n].who = 2 /\ returned[n].com # Zero

\* the positions of the sections printed for a person, in order
SectionsOf(who) ==
    LET Idx == [i \in 1..Len(output) |-> i]
        mine(i) == output[i].k = "section" /\ output[i].who = who
    IN SelectSeq(Idx, mine)

(***************************************************************************)
(* C9: run_for_person prints a section for every requested period, in the  *)
(* order requested; the section of a period with no included row is        *)
(* followed by the "no rows" line, that period has zero sums and adds zero *)
(* to the person's total; a period with rows has its table and subtotals.  *)
(***************************************************************************)
C9_EverySection ==
    (fn = "main" /\ pc = "rows") =>
        LET secs == SectionsOf(pidx)
            mine == Pick(ledger, run, pidx)
        IN /\ [k \in 1..Len(secs) |-> output[secs[k]].comp]
                  = SubSeq(competencias, 1, cidx - 1)
           /\ Len(mine) = cidx - 1
           /\ \A k \in 1..Len(secs) :
                  /\ mine[k].comp = competencias[k]
                  /\ secs[k] < Len(output)
                  /\ IF mine[k].rows = <<>>
                     THEN /\ output[secs[k] + 1].k = "empty"
                          /\ mine[k].gp = Zero
                          /\ mine[k].com = Zero
                     ELSE /\ output[secs[k] + 1].k = "table"
                          /\ output[secs[k] + 2].k = "subtotal"
           /\ gp_total_all = SumDec(GpOf(SelectSeq(mine, LAMBDA e : e.rows # <<>>)))
           /\ com_total_all = SumDec(ComOf(SelectSeq(mine, LAMBDA e : e.rows # <<>>)))

\* a person's periods are over, one of them with rows and one without
C9_Witness ==
    /\ PersonLoopOver
    /\ Len(competencias) >= 2
    /\ \E i \in 1..Len(output) : output[i].k = "empty" /\ output[i].who = pidx
    /\ \E i \in 1..Len(output) : output[i].k = "table" /\ output[i].who = pidx

(***************************************************************************)
(* C11: over all the sheet reads and all the date lookups of one run of    *)
(* main, a handle to a given data source is opened at most one time: at    *)
(* most one spreadsheet client is authorized and at most one database      *)
(* connection is opened.                                                   *)
(***************************************************************************)
C11_SingleHandle ==
    (fn = "main" /\ run = 1) => (clients <= 1 /\ Len(conns) <= 1)

\* the requested periods are pairwise distinct
DistinctPeriods ==
    \A i, j \in 1..Len(competencias) : i # j => competencias[i] # competencias[j]

\* the periods of this run in which row r of person who was listed
ListedIn(who, r) ==
    {n \in 1..Len(lookups) : /\ lookups[n].run = run /\ lookups[n].who = who
                             /\ lookups[n].r = r /\ lookups[n].listed}

\* the lines of this run's listings of person who, the period under way included
ListedLines(who) ==
    SumNat([n \in 1..Len(Pick(ledger, run, who)) |-> Len(Pick(ledger, run, who)[n].rows)])
        + (IF who = pidx THEN Len(out_rows) ELSE 0)

(***************************************************************************)
(* C14: in run_for_person, when the requested periods are pairwise         *)
(* distinct (the date lookup answers the same for a code every time: db    *)
(* never changes), every row of the person is listed in at most one        *)
(* period, every line of the person's listings is such a listing of a row, *)
(* and so the listings hold no more lines than the person has rows: a      *)
(* row's gross value and commission enter the person's total at most once. *)
(***************************************************************************)
C14_RowInOnePeriod ==
    (fn = "main" /\ DistinctPeriods) =>
        \A who \in 1..Len(people) :
            IF "Vendedor" \notin df_ap.cols
            THEN ListedLines(who) = 0        \* line 115: no person has rows
            ELSE /\ \A r \in 1..Len(RowsOf(who)) : Cardinality(ListedIn(who, r)) <= 1
                 /\ ListedLines(who) =
                        SumNat([r \in 1..Len(RowsOf(who)) |->
                                    Cardinality(ListedIn(who, r))])
                 /\ ListedLines(who) <= Len(RowsOf(who))

\* three distinct periods are over for a person; one of the person's rows
\* was looked up in each of them and listed in one, and the total is not zero
C14_Witness ==
    /\ PersonLoopOver /\ debug_code = <<>>
    /\ DistinctPeriods /\ Len(competencias) >= 3
    /\ \E r \in 1..Len(df_person) :
           /\ CallsOfRow(pidx, r) = Len(competencias)
           /\ Cardinality(ListedIn(pidx, r)) = 1
    /\ gp_total_all # Zero

(***************************************************************************)
(* The variant script scripts/test_danielle_set_out_pay_dez.py: run_case   *)
(* and filter_apurado.  Its _to_yyyymm, parse_ptbr_money and the loop's    *)
(* two skips are, line for line, those of the main script and are modelled *)
(* by the same operators.                                                  *)
(***************************************************************************)
\* the text of a column name, as PAY_DATE_COLUMN would spell it
ColumnText(c) ==
    CASE c = "Aprovada" -> <<"A", "p", "r", "o", "v", "a", "d", "a">>
      [] c = "Pago" -> <<"P", "a", "g", "o">>
      [] c = "Código" -> <<"C", "ó", "d", "i", "g", "o">>
      [] c = "Vendedor" -> <<"V", "e", "n", "d", "e", "d", "o", "r">>
      [] OTHER -> <<"P", "r", "o", "f", "i", "t", " ", "L", "i", "q", "u", "i", "d", "o">>

\* the columns of a frame that a text names
ColumnsNamed(cols, text) == {c \in cols : ColumnText(c) = text}

DaysIn(y, m) ==
    IF m \in {4, 6, 9, 11} THEN 30
    ELSE IF m # 2 THEN 31
    ELSE IF y % 4 = 0 /\ (y % 100 # 0 \/ y % 400 = 0) THEN 29 ELSE 28

ValidDate(y, m, d) ==
    IF m \in 1..12 /\ d >= 1 /\ d <= DaysIn(y, m) /\ y >= 1 THEN Date(y, m, d) ELSE NoDate

AllDigits(s) == \A i \in 1..Len(s) : IsDigit(s[i])

(***************************************************************************)
(* _parse_date_any on a cell of the sheet, for the texts the model feeds   *)
(* it: blank, YYYY-MM-DD (parsed with dayfirst=False), DD/MM/YYYY (parsed  *)
(* with dayfirst=True) and texts that hold no date at all, for which       *)
(* dateutil raises and the function returns None.                          *)
(***************************************************************************)
_parse_date_any(x) ==
    LET t == Strip(x)
    IN IF t = <<>> THEN NoDate
       ELSE IF Len(t) = 10 /\ t[5] = "-" /\ t[8] = "-"
               /\ AllDigits(SubSeq(t, 1, 4) \o SubSeq(t, 6, 7) \o SubSeq(t, 9, 10))
       THEN ValidDate(DigitsVal(SubSeq(t, 1, 4)), DigitsVal(SubSeq(t, 6, 7)),
                      DigitsVal(SubSeq(t, 9, 10)))
       ELSE IF Len(t) = 10 /\ t[3] = "/" /\ t[6] = "/"
               /\ AllDigits(SubSeq(t, 1, 2) \o SubSeq(t, 4, 5) \o SubSeq(t, 7, 10))
       THEN ValidDate(DigitsVal(SubSeq(t, 7, 10)), DigitsVal(SubSeq(t, 4, 5)),
                      DigitsVal(SubSeq(t, 1, 2)))
       ELSE NoDate

\* lines 126 and 172: the month of a parsed pay date, "" without one
PayMonth(d) == IF d = NoDate THEN <<>> ELSE _to_yyyymm(d)

\* lines 86-100: as in the main script but for a sheet without "Niveis", where
\* df.get("Niveis", "") is a str and .astype raises
case_get_percentual_sales_exec(df, nivel) ==
    IF "Niveis" \notin df.cols THEN Raised("AttributeError", "astype")
    ELSE get_percentual_sales_exec(df, nivel)

\* lines 103-131: (df, pay_col), or the exception raised; pay_col is the text of
\* PAY_DATE_COLUMN, else "Aprovada" when the sheet has that column, else ""
filter_apurado(ap, vendedor_nome, pay_yyyymm_) ==
    LET override == Strip(Getenv("PAY_DATE_COLUMN", <<>>))
        col == IF override # <<>> THEN override
               ELSE IF "Aprovada" \in ap.cols THEN ColumnText("Aprovada") ELSE <<>>
    IN IF "Código" \notin ap.cols THEN Raised("RuntimeError", "coluna Código")
       ELSE IF "Vendedor" \notin ap.cols THEN Raised("RuntimeError", "coluna Vendedor")
       ELSE LET has(r) == Contains(Lower(r["Vendedor"]), Lower(vendedor_nome))
                mine == SelectSeq(ap.rows, has)
            IN IF col = <<>>
               THEN Returned([df |-> [i \in 1..Len(mine) |->
                                        [c \in ap.cols \cup {"_pay_yyyymm"} |->
                                            IF c = "_pay_yyyymm" THEN <<>> ELSE mine[i][c]]],
                              pay_col |-> col])
               ELSE IF ColumnsNamed(ap.cols, col) = {} THEN Raised("KeyError", "pay_col")
               ELSE LET pc_ == CHOOSE c \in ColumnsNamed(ap.cols, col) : TRUE
                        dated == [i \in 1..Len(mine) |->
                                    [c \in ap.cols \cup {"_pay_dt", "_pay_yyyymm"} |->
                                        IF c = "_pay_dt" THEN _parse_date_any(mine[i][pc_])
                                        ELSE IF c = "_pay_yyyymm"
                                        THEN PayMonth(_parse_date_any(mine[i][pc_]))
                                        ELSE mine[i][c]]]
                        paid(r) == r["_pay_yyyymm"] = pay_yyyymm_
                    IN Returned([df |-> SelectSeq(dated, paid), pay_col |-> col])

\* mysql_repo.get_date_creation_by_shipment_number, which run_case imports: the
\* creation date of the shipment of that number, None without one
get_date_creation_by_shipment_number(table, shipment_number) ==
    get_dates_by_shipment_number(table, shipment_number).creation

\* lines 186-189: whether a looked-up row is listed
CaseVerdict(dt_creation, competencia_yyyymm) ==
    IF dt_creation = NoDate THEN "none"
    ELSE IF _to_yyyymm(dt_creation) # competencia_yyyymm THEN "competencia"
    ELSE "ok"

\* lines 191-207: the line of the listing
CaseOutRow(r, codigo, dt_creation, pay, nivel, rate) ==
    LET gp == parse_ptbr_money(PyStr(CellOr(r, GP_COL))).v
    IN [codigo |-> codigo,
        date_creation |-> StrfDate(dt_creation),
        pay_date |-> pay,
        nivel |-> nivel,
        percentual |-> PctLabel(rate),
        gp |-> gp,
        valor_comissao |-> RoundTo(DecMul(gp, rate), 2)]

\* the variables run_case leaves alone
caseIdle == <<fn, arg, env, df_niveis, df_meta, df_ap, db, competencias, pay_yyyymm, people,
              pidx, cidx, gp_total_all, com_total_all, gp_geral, com_geral, returned, run,
              first, clients, conns, lk>>

\* run_case, lines 143-155
CaseBegin ==
    /\ pc = "case"
    /\ LET rate == case_get_percentual_sales_exec(df_niveis, arg.nivel_forcado)
           got == filter_apurado(df_ap, arg.vendedor_nome, arg.pay_yyyymm)
           fails(e) == /\ Abort(e)
                       /\ UNCHANGED <<pct, df_person, pay_col, ridx>>
       IN IF GP_COL \notin df_ap.cols THEN fails(Raised("RuntimeError", "coluna GP"))
          ELSE IF rate.raised THEN fails(rate)
          ELSE IF got.raised THEN fails(got)
          ELSE /\ pct' = rate.v
               /\ df_person' = got.v.df
               /\ pay_col' = got.v.pay_col
               /\ ridx' = 1
               /\ pc' = "case_rows" /\ err' = err
    /\ out_rows' = <<>> /\ gp_total' = Zero /\ com_total' = Zero
    /\ UNCHANGED <<res, output, lookups, ledger>>
    /\ UNCHANGED caseIdle

\* run_case, lines 157-211: one row of df_d; ledger keeps the rows of df_d that
\* were listed, in order
CaseRow ==
    /\ pc = "case_rows"
    /\ ridx <= Len(df_person)
    /\ LET r == df_person[ridx]
           codigo == Strip(CellOr(r, "Código"))
       IN IF SkipsRow(codigo, debug_code)
          THEN /\ ridx' = ridx + 1
               /\ UNCHANGED <<out_rows, gp_total, com_total, output, lookups, ledger>>
          ELSE LET dt_creation == get_date_creation_by_shipment_number(db, codigo)
                   verdict == CaseVerdict(dt_creation, arg.competencia_yyyymm)
                   line == CaseOutRow(r, codigo, dt_creation, arg.pay_yyyymm,
                                      arg.nivel_forcado, pct)
                   said == IF debug_code = <<>> THEN <<>>
                           ELSE <<[k |-> "debug", what |-> "case", codigo |-> codigo,
                                   pay_col |-> pay_col]>>
                   entrou == IF debug_code = <<>> THEN <<>>
                             ELSE <<[k |-> "debug", what |-> "entrou"]>>
               IN /\ lookups' = Append(lookups, [run |-> run, who |-> pidx, c |-> cidx,
                                                 r |-> ridx, codigo |-> codigo])
                  /\ IF verdict # "ok"
                     THEN /\ ridx' = ridx + 1
                          /\ output' = output \o said
                          /\ UNCHANGED <<out_rows, gp_total, com_total, ledger>>
                     ELSE /\ gp_total' = DecAdd(gp_total, line.gp)
                          /\ com_total' = DecAdd(com_total, line.valor_comissao)
                          /\ out_rows' = Append(out_rows, line)
                          /\ ledger' = Append(ledger, r)
                          /\ output' = output \o said \o entrou
                          /\ ridx' = IF debug_code = <<>> THEN ridx + 1
                                     ELSE Len(df_person) + 1      \* break
    /\ UNCHANGED <<res, pc, err, pct, df_person, pay_col>>
    /\ UNCHANGED caseIdle

\* run_case, lines 213-232
CaseEnd ==
    /\ pc = "case_rows"
    /\ ridx > Len(df_person)
    /\ pc' = "case_done"
    /\ IF debug_code # <<>>
       THEN /\ res' = Returned(<<gp_total, com_total>>)
            /\ output' = output
       ELSE LET head == [k |-> "case", nome |-> arg.vendedor_nome,
                         comp |-> arg.competencia_yyyymm, pay |-> arg.pay_yyyymm,
                         percentual |-> PctLabel(pct)]
            IN IF out_rows = <<>>
               THEN /\ res' = Returned(<<Zero, Zero>>)
                    /\ output' = output \o <<head, [k |-> "empty"]>>
               ELSE /\ res' = Returned(<<gp_total, com_total>>)
                    /\ output' = output \o <<head,
                                             [k |-> "table", rows |-> SortRows(out_rows)],
                                             [k |-> "subtotal", gp |-> Fmt2(gp_total),
                                              com |-> Fmt2(com_total)]>>
    /\ UNCHANGED <<err, pct, df_person, pay_col, ridx, out_rows, gp_total, com_total,
                   lookups, ledger>>
    /\ UNCHANGED caseIdle

NextCase == CaseBegin \/ CaseRow \/ CaseEnd

CaseCols == ApCols \cup {"Aprovada", "Pago"}

CaseRowOf(codigo, vendedor, gp, aprovada, pago) ==
    [c \in CaseCols |->
        CASE c = "Código" -> codigo
          [] c = "Vendedor" -> vendedor
          [] c = "Aprovada" -> aprovada
          [] c = "Pago" -> pago
          [] OTHER -> gp]

ISO_DEC_09 == <<"2", "0", "2", "5", "-", "1", "2", "-", "0", "9">>
ISO_NOV_30 == <<"2", "0", "2", "5", "-", "1", "1", "-", "3", "0">>
BR_DEC_09 == <<"0", "9", "/", "1", "2", "/", "2", "0", "2", "5">>

\* rows of the Apurado sheet with their two date columns: both in December, one
\* in November and one in December, blank and unparseable, a blank code
CaseRows ==
    <<CaseRowOf(COD1, ANA, MIL, ISO_DEC_09, BR_DEC_09),
      CaseRowOf(COD2, <<"A", "N", "A", " ", "L", "I", "M", "A">>, SETE, ISO_NOV_30, BR_DEC_09),
      CaseRowOf(COD1, ANA, SETE, <<>>, <<"x">>),
      CaseRowOf(<<" ", " ">>, ANA, MIL, ISO_DEC_09, ISO_DEC_09),
      CaseRowOf(COD2, BOB, SETE, <<" ">> \o ISO_DEC_09, ISO_NOV_30)>>

\* the sheets of up to MaxRows of these rows, with and without the date columns
CaseTables ==
    {Without(Table(CaseCols, RowsAt(CaseRows, S, 1)), gone) :
        S \in {T \in SUBSET (1..Len(CaseRows)) : Cardinality(T) <= MaxRows},
        gone \in {{}, {"Aprovada"}, {"Pago"}, {"Aprovada", "Pago"}}}

CaseEnv(override, debug) ==
    [n \in {"PAY_DATE_COLUMN", "DEBUG_CODE"} |->
        IF n = "DEBUG_CODE" THEN debug ELSE override]

CaseEnvs ==
    {CaseEnv(o, d) : o \in {<<>>, <<" ">> \o ColumnText("Pago"), ColumnText("Aprovada"),
                            <<"N", "o">>},
                     d \in {<<>>, COD1}}
    \cup {[n \in {} |-> <<>>]}

CaseArgs ==
    [competencia_yyyymm : {P2025_08, P2025_09}, pay_yyyymm : {P2025_12},
     vendedor_nome : {ANA}, nivel_forcado : {GUARDIAO_ACENTO, MESTRE}]

InitCase ==
    /\ fn = "run_case" /\ arg \in CaseArgs /\ res = Pending
    /\ env \in CaseEnvs
    /\ \/ /\ df_niveis = NiveisBase
          /\ df_ap \in CaseTables
       \/ /\ df_niveis = Without(NiveisBase, {"Niveis"})
          /\ df_ap = Table(CaseCols, CaseRows)
       \/ /\ df_niveis = NiveisBase
          /\ df_ap \in {Without(Table(CaseCols, CaseRows), {c}) : c \in ApCols}
    /\ df_meta = NoTable
    /\ db \in {Shipments(Dates(Date(2025, 8, 15), Date(2025, 12, 1)),
                         Dates(Date(2025, 8, 3), Date(2025, 11, 30))),
               Shipments(Dates(Date(2025, 9, 30), NoDate),
                         Dates(NoDate, Date(2025, 12, 9)))}
    /\ pc = "case" /\ err = NoErr
    /\ competencias = <<>> /\ pay_yyyymm = <<>>
    /\ people = <<>> /\ pidx = 0
    /\ pct = NoPct /\ df_person = <<>> /\ cidx = 0 /\ ridx = 0
    /\ out_rows = <<>>
    /\ gp_total = Zero /\ com_total = Zero
    /\ gp_total_all = Zero /\ com_total_all = Zero
    /\ gp_geral = Zero /\ com_geral = Zero
    /\ output = <<>> /\ lookups = <<>> /\ ledger = <<>> /\ returned = <<>>
    /\ run = 0 /\ first = <<>>
    /\ clients = 0 /\ conns = <<>> /\ lk = NoLookup
    /\ pay_col = <<>>

SpecCase == InitCase /\ [][NextCase]_vars

\* the month of the pay-date column of a row of df_d, "" when run_case has no
\* pay-date column or the cell holds no date
RowPayMonth(r) ==
    IF ColumnsNamed(DOMAIN r, pay_col) = {} THEN <<>>
    ELSE PayMonth(_parse_date_any(r[CHOOSE c \in ColumnsNamed(DOMAIN r, pay_col) : TRUE]))

(***************************************************************************)
(* C12: every row run_case lists has a pay-date month equal to the         *)
(* requested settlement period and a creation month equal to the requested *)
(* creation period, whatever PAY_DATE_COLUMN is and whatever the sheet,    *)
(* also a sheet without "Aprovada" with no override set.                   *)
(***************************************************************************)
C12_VariantBothMonths ==
    fn = "run_case" =>
        /\ Len(ledger) = Len(out_rows)
        /\ \A k \in 1..Len(ledger) :
               LET creation == DatesFor(Strip(ledger[k]["Código"])).creation
               IN /\ RowPayMonth(ledger[k]) = arg.pay_yyyymm
                  /\ creation # NoDate
                  /\ _to_yyyymm(creation) = arg.competencia_yyyymm

(***************************************************************************)
(* mysql_repo.get_shipment_dates_by_number, step by step, called up to     *)
(* MaxLookups times in a row.  arg is the call's shipment number with what *)
(* the server does to it: "none" (it answers), "connect" (pymysql.connect  *)
(* raises) or "query" (the cursor or the query raises).  lookups is the    *)
(* log of the calls.                                                       *)
(***************************************************************************)
\* conn.close() on the connection opened last, with the others as they are
CloseConn_leak(cs) == cs

\* line 58: conn.close() on the connection of this call, the one opened last
CloseConn(cs) == [cs EXCEPT ![Len(cs)] = "closed"]

LookupNumbers == {<<>>, <<" ">>, COD1, COD2, COD3}
LookupFaults == {"none", "connect", "query"}

lookupIdle == <<fn, env, df_niveis, df_meta, df_ap, db, pc, err, competencias, pay_yyyymm,
                people, pidx, pct, df_person, cidx, ridx, out_rows, gp_total, com_total,
                gp_total_all, com_total_all, gp_geral, com_geral, output, ledger,
                returned, run, first, clients, pay_col>>

\* lines 34-45: the empty number returns at once; otherwise _mysql_conn()
LookupCall ==
    /\ fn = "get_shipment_dates_by_number"
    /\ lk.at = "idle"
    /\ Len(lookups) < MaxLookups
    /\ \E sn \in LookupNumbers, fault \in LookupFaults :
          /\ arg' = [shipment_number |-> sn, fault |-> fault]
          /\ lookups' = Append(lookups, arg')
          /\ IF sn = <<>>
             THEN /\ res' = Returned(NoDates)
                  /\ UNCHANGED <<conns, lk>>
             ELSE IF fault = "connect"
             THEN /\ res' = Raised("OperationalError", "connect")
                  /\ UNCHANGED <<conns, lk>>
             ELSE /\ res' = Pending
                  /\ conns' = Append(conns, "open")
                  /\ lk' = [at |-> "try", out |-> Pending]
    /\ UNCHANGED lookupIdle

\* lines 46-56: the body of the try
LookupQuery ==
    /\ lk.at = "try"
    /\ lk' = [at |-> "finally",
              out |-> IF arg.fault = "query" THEN Raised("MySQLError", "query")
                      ELSE IF arg.shipment_number \in DOMAIN db
                      THEN Returned(db[arg.shipment_number])
                      ELSE Returned(NoDates)]
    /\ UNCHANGED <<arg, res, conns, lookups>>
    /\ UNCHANGED lookupIdle

\* lines 57-58: the finally clause, then the return or the exception
LookupFinally ==
    /\ lk.at = "finally"
    /\ conns' = CloseConn(conns)
    /\ res' = lk.out
    /\ lk' = NoLookup
    /\ UNCHANGED <<arg, lookups>>
    /\ UNCHANGED lookupIdle

NextLookup == LookupCall \/ LookupQuery \/ LookupFinally

InitLookup ==
    /\ fn = "get_shipment_dates_by_number"
    /\ arg = <<>>
    /\ res = Pending
    /\ env = [idle |-> TRUE]
    /\ df_niveis = NoTable /\ df_meta = NoTable /\ df_ap = NoTable
    /\ db \in DbTables
    /\ pc = "idle" /\ err = NoErr
    /\ competencias = <<>> /\ pay_yyyymm = <<>>
    /\ people = <<>> /\ pidx = 0
    /\ pct = NoPct /\ df_person = <<>> /\ cidx = 0 /\ ridx = 0
    /\ out_rows = <<>>
    /\ gp_total = Zero /\ com_total = Zero
    /\ gp_total_all = Zero /\ com_total_all = Zero
    /\ gp_geral = Zero /\ com_geral = Zero
    /\ output = <<>> /\ lookups = <<>> /\ ledger = <<>> /\ returned = <<>>
    /\ run = 0 /\ first = <<>>
    /\ clients = 0 /\ conns = <<>> /\ lk = NoLookup
    /\ pay_col = <<>>

SpecLookup == InitLookup /\ [][NextLookup]_vars

\* the calls so far that got a connection: a number that is not empty and a
\* server that accepted the connection
Connected == SelectSeq(lookups, LAMBDA c : c.shipment_number # <<>> /\ c.fault # "connect")

OpenConns == {i \in 1..Len(conns) : conns[i] = "open"}

(***************************************************************************)
(* C13: every connection get_shipment_dates_by_number opens is closed when *)
(* the call returns or raises (row found, no row, query raising), so none  *)
(* is open after a lookup and at most one is open at any time; a call with *)
(* an empty shipment number returns (None, None) and opens no connection.  *)
(***************************************************************************)
C13_ConnClosed ==
    fn = "get_shipment_dates_by_number" =>
        /\ Cardinality(OpenConns) <= 1
        /\ Len(conns) = Len(Connected)
        /\ lk.at = "idle" => OpenConns = {}
        /\ lk.at # "idle" => (res = Pending /\ OpenConns = {Len(conns)})
        /\ (lk.at = "idle" /\ lookups # <<>>) =>
               /\ res # Pending
               /\ arg.shipment_number = <<>> => res = Returned(NoDates)
               /\ ~res.raised =>
                      res.v = get_dates_by_shipment_number(db, arg.shipment_number)
               /\ res.raised <=> (arg.shipment_number # <<>> /\ arg.fault # "none")

\* a call with an empty number, then a found row, then a query that raised
C13_Witness ==
    /\ fn = "get_shipment_dates_by_number"
    /\ lk.at = "idle"
    /\ Len(lookups) = 3
    /\ lookups[1].shipment_number = <<>>
    /\ lookups[2].shipment_number \in DOMAIN db /\ lookups[2].fault = "none"
    /\ lookups[3].fault = "query" /\ res.raised
    /\ conns = <<"closed", "closed">>

====
